---- MODULE Spec2Model ----
(***************************************************************************)
(* Atelier Backend: the Express server in front of the hosted auth /       *)
(* table / object stores.  The repository holds three builds of the        *)
(* server: src/index.js lines 1-219 ("index1"), src/index.js lines         *)
(* 221-449 ("index2") and src/unnamed/part_001 ("part001"); the auth and   *)
(* adminOnly middlewares of src/unnamed/part_000 are shared by all three.  *)
(* One request is followed from arrival to response, one step per awaited  *)
(* external call; every external call may fail.  Access tokens are         *)
(* self-contained: the identity provider accepts the token of any account  *)
(* it holds.  Left out: GET / and /health, POST /auth/recover and the      *)
(* three POST /stats/* counters, which touch none of the state below.      *)
(* The supabase clients report failures in the error field and do not      *)
(* throw, so the catch block of POST /products has no step.                *)
(***************************************************************************)
EXTENDS Integers, Sequences, FiniteSets, TLC

\* ------------------------------------------------------------------ bounds
MaxUsers == 2
MaxProducts == 1
MaxFiles == 2
MaxClock == 1

\* ------------------------------------------------------- program constants
FilesLimit == 10

Variants == {"index1", "index2", "part001"}

Undefined == "undefined"

UrlBase == <<"https:", "", "project.supabase.co", "storage", "v1", "object", "public", "photos">>

\* response messages, written without their accents
MsgNoToken == "Token nao enviado"
MsgBadToken == "Token invalido"
MsgDenied == "Acesso negado"
MsgTitle == "Titulo e descricao sao obrigatorios"
MsgNoFiles == "Envie ao menos uma imagem"
MsgLogin == "Login invalido"
MsgRegister == "Dados obrigatorios faltando"

\* messages the external services put in their error objects
MsgAuthDown == "auth service error"
MsgDbDown == "database error"
MsgStorageDown == "storage error"
MsgExists == "The resource already exists"
MsgDuplicate == "duplicate key value violates unique constraint"
MsgEmailTaken == "A user with this email address has already been registered"
MsgNoRows == "JSON object requested, multiple (or no) rows returned"

NoUser == 0
NoIndex == -1

\* ------------------------------------------------------------ request data
Last(s) == s[Len(s)]

\* A string that reaches a URL is kept as its pieces: runs of characters that
\* encodeURI leaves alone, with every "." and every " " a piece of its own.
Text(pieces) ==
    LET RECURSIVE Cat(_)
        Cat(ps) == IF ps = <<>> THEN "" ELSE ps[1] \o Cat(Tail(ps))
    IN Cat(pieces)

\* original names: a.png and "my photo.png"
Names == {<<"a", ".", "png">>, <<"my", " ", "photo", ".", "png">>}

\* the k-th file part of a request; its bytes are the k-th image of the form
File(name, k) ==
    [originalname |-> name, mimetype |-> "image/" \o Last(name),
     buffer |-> "img" \o ToString(k)]

\* the file lists tried: the first part is always a.png
FileLists ==
    UNION {{[k \in 1..n |-> File(names[k], k)] :
               names \in {f \in [1..n -> Names] : n = 0 \/ f[1] = <<"a", ".", "png">>}} :
              n \in 0..MaxFiles}

Titles == {"", "Chair"}
Descriptions == {Undefined, "Oak chair"}
Contacts == {Undefined, "123"}
Email(u) == "user" \o ToString(u) \o "@x"
Emails == {Undefined} \cup {Email(u) : u \in 1..MaxUsers}
Passwords == {"pw", "wrong"}

NoBody == [email |-> Undefined, password |-> Undefined, cpf |-> Undefined,
           telefone |-> Undefined, title |-> Undefined, description |-> Undefined]

\* the Authorization header: absent, or a string given as its chunks
NoHeader == [sent |-> FALSE, value |-> <<>>]
Header(chunks) == [sent |-> TRUE, value |-> chunks]

AccessToken(u) == "jwt-" \o ToString(u)

HeaderChunks == {<<>>, <<"Bearer ", "garbage">>, <<AccessToken(1)>>}
                  \cup {<<"Bearer ", AccessToken(u)>> : u \in 1..MaxUsers}

Headers == {NoHeader} \cup {Header(c) : c \in HeaderChunks}

\* ------------------------------------------------------------ JS helpers
RECURSIVE Join(_, _)
Join(parts, sep) ==
    IF parts = <<>> THEN ""
    ELSE IF Len(parts) = 1 THEN parts[1]
    ELSE parts[1] \o sep \o Join(Tail(parts), sep)

\* !x for a string or undefined
Falsy(x) == x = Undefined \/ x = ""

\* String.prototype.replace(pattern, ""): drops the first occurrence
RECURSIVE Replace(_, _)
Replace(chunks, pattern) ==
    IF chunks = <<>> THEN <<>>
    ELSE IF chunks[1] = pattern THEN Tail(chunks)
    ELSE <<chunks[1]>> \o Replace(Tail(chunks), pattern)

\* Array.prototype.slice(-n)
SliceLast(s, n) == IF Len(s) <= n THEN s ELSE SubSeq(s, Len(s) - n + 1, Len(s))

Json(status, body) == [status |-> status, body |-> body]
NoRes == [status |-> 0, body |-> [pending |-> TRUE]]
Err(msg) == [error |-> msg]
Ok == [ok |-> TRUE]

\* one external call: its argument, the error and the value it answered
CallRet(svc, op, target, arg, err, ret) ==
    [svc |-> svc, op |-> op, target |-> target, arg |-> arg, err |-> err, ret |-> ret]
Call(svc, op, target, arg, err) == CallRet(svc, op, target, arg, err, "")

\* ---------------------------------------------------------------- routes
Gated == {"POST /products", "DELETE /products/:id", "GET /me",
          "GET /admin/stats", "GET /admin/clients"}
AdminGated == Gated \ {"GET /me"}

Routes(v) ==
    {"POST /auth/login", "GET /products", "POST /products",
     "DELETE /products/:id", "GET /me"}
    \cup (IF v = "part001"
          THEN {"POST /auth/register", "GET /admin/stats", "GET /admin/clients"}
          ELSE {})

Chain(route) ==
    CASE route = "POST /products" -> <<"auth", "adminOnly", "upload", "create">>
      [] route = "DELETE /products/:id" -> <<"auth", "adminOnly", "delLookup">>
      [] route = "GET /admin/stats" -> <<"auth", "adminOnly", "adminStats">>
      [] route = "GET /admin/clients" -> <<"auth", "adminOnly", "adminClients">>
      [] route = "GET /me" -> <<"auth", "meLookup">>
      [] route = "GET /products" -> <<"getProducts">>
      [] route = "POST /auth/login" -> <<"login">>
      [] route = "POST /auth/register" -> <<"register">>

\* ----------------------------------------------------------------- state
VARIABLES
    variant,          \* which build of the server is running
    now,              \* Date.now()
    users,            \* identity provider: accounts
    profiles,         \* table profiles
    products,         \* table products
    product_images,   \* table product_images
    blobs,            \* bucket photos; owner: the product a blob was uploaded for
    nextProductId, nextImageId, nextUuid,
    req,              \* the request being served
    pc,               \* where its handler chain stands
    ran,              \* the stages of the chain invoked so far
    user,             \* req.user
    res,              \* the response sent
    calls,            \* the external calls issued for this request, in order
    product,          \* POST /products: id of the row of step 1
    images,           \* POST /products: rows to insert; DELETE: rows found
    i,                \* loop index
    found,            \* DELETE: number of product_images rows at the lookup
    data              \* register: data.user.id of the account just created

stores == <<users, profiles, products, product_images, blobs,
            nextProductId, nextImageId, nextUuid>>
config == <<variant>>
local == <<product, images, i, found, data>>
vars == <<variant, now, users, profiles, products,
          product_images, blobs, nextProductId, nextImageId, nextUuid,
          req, pc, ran, user, res, calls, product, images, i, found, data>>

\* account 1 is the administrator.  A build without a registration route
\* gets its other accounts out of band: account 2, which has no profile.
IdleReq == [route |-> "none", authorization |-> NoHeader, body |-> NoBody,
            files |-> <<>>, id |-> 0]

Init ==
    /\ variant \in Variants
    /\ now = 0
    /\ users = {[id |-> 1, email |-> Email(1), password |-> "pw"]}
               \cup (IF "POST /auth/register" \in Routes(variant) THEN {}
                     ELSE {[id |-> 2, email |-> Email(2), password |-> "pw"]})
    /\ profiles = {[id |-> 1, role |-> "admin", cpf |-> "000", telefone |-> "999"]}
    /\ products = {}
    /\ product_images = {}
    /\ blobs = {}
    /\ nextProductId = 1
    /\ nextImageId = 1
    /\ nextUuid = 1
    /\ req = IdleReq
    /\ pc = "idle"
    /\ ran = <<>>
    /\ user = NoUser
    /\ res = NoRes
    /\ calls = <<>>
    /\ product = 0
    /\ images = <<>>
    /\ i = 0
    /\ found = 0
    /\ data = NoUser

\* res.status(s).json(b) ends the handler chain
Respond(status, body) ==
    /\ res' = Json(status, body)
    /\ pc' = "done"

\* next(): hand the request to the following stage of its chain
InvokeNext ==
    /\ pc' = Chain(req.route)[Len(ran) + 1]
    /\ ran' = Append(ran, Chain(req.route)[Len(ran) + 1])
    /\ res' = res

\* ---------------------------------------------------------------- arrival
Arrive(r) ==
    /\ pc = "idle"
    /\ req' = r
    /\ pc' = Chain(r.route)[1]
    /\ ran' = <<Chain(r.route)[1]>>
    /\ user' = NoUser
    /\ res' = NoRes
    /\ calls' = <<>>
    /\ product' = 0
    /\ images' = <<>>
    /\ i' = 0
    /\ found' = 0
    /\ data' = NoUser
    /\ UNCHANGED <<config, now, stores>>

\* the response is on the wire and the request's scope is gone
finish ==
    /\ pc = "done"
    /\ req' = IdleReq
    /\ pc' = "idle"
    /\ ran' = <<>>
    /\ user' = NoUser
    /\ res' = NoRes
    /\ calls' = <<>>
    /\ product' = 0
    /\ images' = <<>>
    /\ i' = 0
    /\ found' = 0
    /\ data' = NoUser
    /\ UNCHANGED <<config, now, stores>>

\* time passes; only the upload loop reads the clock
Tick ==
    /\ pc = "uploadFile"
    /\ now < MaxClock
    /\ now' = now + 1
    /\ UNCHANGED <<config, stores, req, pc, ran, user, res, calls, local>>

\* ------------------------------------------------------- auth middleware
MissingHeader_dropped(h) == FALSE

\* if (!authHeader)
MissingHeader(h) == ~h.sent \/ Join(h.value, "") = ""

\* authHeader.replace("Bearer ", "")
BearerToken(h) == Join(Replace(h.value, "Bearer "), "")

\* supabase.auth.getUser(token): what the identity provider may answer
GetUser(token) ==
    {[error |-> MsgAuthDown, user |-> NoUser], [error |-> "", user |-> NoUser]}
    \cup {[error |-> "", user |-> u.id] : u \in {t \in users : AccessToken(t.id) = token}}
    \cup (IF \E t \in users : AccessToken(t.id) = token THEN {}
          ELSE {[error |-> "invalid JWT", user |-> NoUser]})

TokenRejected_errorOnly(error, u) == error # ""

\* if (error || !data.user)
TokenRejected(error, u) == error # "" \/ u = NoUser

auth ==
    /\ pc = "auth"
    /\ IF MissingHeader(req.authorization)
       THEN /\ Respond(401, Err(MsgNoToken))
            /\ UNCHANGED <<user, ran, calls>>
       ELSE \E out \in GetUser(BearerToken(req.authorization)) :
            /\ calls' = Append(calls, CallRet("auth", "getUser", "",
                                <<BearerToken(req.authorization)>>, out.error,
                                IF out.user = NoUser THEN "null" ELSE ToString(out.user)))
            /\ IF TokenRejected(out.error, out.user)
               THEN /\ Respond(401, Err(MsgBadToken))
                    /\ UNCHANGED <<user, ran>>
               ELSE /\ user' = out.user
                    /\ InvokeNext
    /\ UNCHANGED <<config, now, stores, req, local>>

\* ------------------------------------------------------ admin middleware
\* from("profiles").select("role").eq("id", id).single()
SelectSingle(id) ==
    {[error |-> MsgDbDown, data |-> Undefined]}
    \cup (IF Cardinality({p \in profiles : p.id = id}) = 1
          THEN {[error |-> "", data |-> p.role] : p \in {q \in profiles : q.id = id}}
          ELSE {[error |-> MsgNoRows, data |-> Undefined]})

AdminDenied_anyRole(error, role) == error # "" \/ role = Undefined

\* if (error || !data || data.role !== "admin")
AdminDenied(error, role) == error # "" \/ role = Undefined \/ role # "admin"

adminOnly ==
    /\ pc = "adminOnly"
    /\ \E out \in SelectSingle(user) :
        /\ calls' = Append(calls, CallRet("db", "select", "profiles",
                            <<ToString(user)>>, out.error,
                            IF out.data = Undefined THEN "null" ELSE out.data))
        /\ IF AdminDenied(out.error, out.data)
           THEN /\ Respond(403, Err(MsgDenied))
                /\ ran' = ran
           ELSE InvokeNext
    /\ UNCHANGED <<config, now, stores, req, user, local>>

\* upload.array("files", 10)
uploadArray ==
    /\ pc = "upload"
    /\ IF Len(req.files) > FilesLimit
       THEN /\ Respond(500, Err("MulterError: Unexpected field"))
            /\ ran' = ran
       ELSE InvokeNext
    /\ UNCHANGED <<config, now, stores, req, user, calls, local>>

\* ------------------------------------------------------- POST /products
NoFiles_dropped(files) == FALSE

\* if (!req.files || req.files.length === 0)
NoFiles(files) == Len(files) = 0

\* file.originalname.split(".").pop(): what follows the last "."
RECURSIVE AfterLastDot(_)
AfterLastDot(pieces) ==
    IF pieces = <<>> THEN <<>>
    ELSE IF Last(pieces) = "." THEN <<>>
    ELSE Append(AfterLastDot(SubSeq(pieces, 1, Len(pieces) - 1)), Last(pieces))

Ext(file) == AfterLastDot(file.originalname)

\* the blob key of file idx: its "/"-separated segments, each as its pieces
FileName(v, pid, t, idx, uuid, file) ==
    CASE v = "index1" ->
           <<<<ToString(pid), "-", ToString(t), "-", ToString(idx)>>>>
      [] v = "index2" ->
           <<<<ToString(pid)>>, <<"uuid" \o ToString(uuid), ".">> \o Ext(file)>>
      [] v = "part001" ->
           <<<<ToString(t), "-">> \o file.originalname>>

\* the key as the object store holds it: the strings of its segments
Path(fileName) == [k \in 1..Len(fileName) |-> Text(fileName[k])]

\* encodeURI: of the characters of a key, the space is escaped
EncodeURI(pieces) ==
    [k \in 1..Len(pieces) |-> IF pieces[k] = " " THEN "%20" ELSE pieces[k]]

\* storage.from("photos").getPublicUrl(fileName).data.publicUrl, which the
\* storage client builds as encodeURI(url + "/object/public/photos/" + path)
PublicUrl(fileName) ==
    UrlBase \o [k \in 1..Len(fileName) |-> Text(EncodeURI(fileName[k]))]

\* the row pushed on images for file idx
ImageRow(v, pid, url, idx) ==
    [product_id |-> pid, url |-> url,
     order_index |-> IF v = "part001" THEN NoIndex ELSE idx]

UploadFailed_ignored(err) == FALSE

\* if (uploadError)
UploadFailed(err) == err # ""

createProduct ==
    /\ pc = "create"
    /\ IF Falsy(req.body.title) \/ Falsy(req.body.description)
       THEN /\ Respond(400, Err(MsgTitle))
            /\ UNCHANGED <<stores, calls, local>>
       ELSE IF NoFiles(req.files)
       THEN /\ Respond(400, Err(MsgNoFiles))
            /\ UNCHANGED <<stores, calls, local>>
       ELSE \E fail \in BOOLEAN :
            /\ calls' = Append(calls, Call("db", "insert", "products", <<>>,
                                           IF fail THEN MsgDbDown ELSE ""))
            /\ IF fail
               THEN /\ Respond(500, Err(MsgDbDown))
                    /\ UNCHANGED <<stores, local>>
               ELSE /\ products' = products \cup
                           {[id |-> nextProductId, title |-> req.body.title,
                             description |-> req.body.description,
                             created_at |-> nextProductId]}
                    /\ nextProductId' = nextProductId + 1
                    /\ product' = nextProductId
                    /\ images' = <<>>
                    /\ i' = 0
                    /\ pc' = IF Len(req.files) = 0 THEN "insertImages" ELSE "uploadFile"
                    /\ res' = res
                    /\ UNCHANGED <<users, profiles, product_images,
                                   blobs, nextImageId, nextUuid, found, data>>
    /\ UNCHANGED <<config, now, req, ran, user>>

uploadFile ==
    /\ pc = "uploadFile"
    /\ LET file == req.files[i + 1]
           fileName == FileName(variant, product, now, i, nextUuid, file)
       IN \E fail \in BOOLEAN :
          LET err == IF fail THEN MsgStorageDown
                     ELSE IF \E b \in blobs : b.key = Path(fileName) THEN MsgExists
                     ELSE ""
          IN /\ calls' = Append(calls, Call("storage", "upload", "photos",
                                            Path(fileName), err))
             /\ nextUuid' = IF variant = "index2" THEN nextUuid + 1 ELSE nextUuid
             /\ blobs' = IF err = ""
                         THEN blobs \cup {[key |-> Path(fileName), buffer |-> file.buffer,
                                           contentType |-> file.mimetype,
                                           owner |-> product]}
                         ELSE blobs
             /\ IF UploadFailed(err)
                THEN /\ Respond(500, Err(err))
                     /\ UNCHANGED <<images, i>>
                ELSE /\ images' = Append(images,
                            ImageRow(variant, product, PublicUrl(fileName), i))
                     /\ i' = i + 1
                     /\ pc' = IF i + 1 < Len(req.files) THEN "uploadFile" ELSE "insertImages"
                     /\ res' = res
    /\ UNCHANGED <<config, now, users, profiles, products, product_images,
                   nextProductId, nextImageId, req, ran, user, product, found, data>>

insertImages ==
    /\ pc = "insertImages"
    /\ \E fail \in BOOLEAN :
        /\ calls' = Append(calls, Call("db", "insert", "product_images",
                                       <<ToString(product)>>,
                                       IF fail THEN MsgDbDown ELSE ""))
        /\ IF fail
           THEN /\ Respond(500, Err(MsgDbDown))
                /\ UNCHANGED <<product_images, nextImageId>>
           ELSE /\ product_images' = product_images \cup
                       {[id |-> nextImageId + k - 1,
                         product_id |-> images[k].product_id,
                         url |-> images[k].url,
                         order_index |-> images[k].order_index] : k \in 1..Len(images)}
                /\ nextImageId' = nextImageId + Len(images)
                /\ Respond(201, Ok)
    /\ UNCHANGED <<config, now, users, profiles, products, blobs,
                   nextProductId, nextUuid, req, ran, user, local>>

\* ------------------------------------------------ DELETE /products/:id
\* the sequences that list every element of the finite set S once
Perms(S) ==
    {f \in [1..Cardinality(S) -> S] : \A a, b \in 1..Cardinality(S) : f[a] = f[b] => a = b}

RemoveList_none(isNull, rows) == <<>>

\* the rows the loop visits: if (images) / if (images?.length)
RemoveList(isNull, rows) == IF isNull THEN <<>> ELSE rows

\* the blob key derived from a stored url, given as its "/"-separated segments
DeleteKey(v, url) ==
    IF v = "index2" THEN SliceLast(url, 2) ELSE <<Last(url)>>

delLookup ==
    /\ pc = "delLookup"
    /\ \E fail \in BOOLEAN :
       \E rows \in Perms({r \in product_images : r.product_id = req.id}) :
        /\ calls' = Append(calls, Call("db", "select", "product_images",
                                       <<ToString(req.id)>>,
                                       IF fail THEN MsgDbDown ELSE ""))
        /\ found' = Len(rows)
        /\ images' = RemoveList(fail, [k \in 1..Len(rows) |-> [url |-> rows[k].url]])
        /\ i' = 0
        /\ pc' = IF Len(RemoveList(fail, rows)) = 0 THEN "delProduct" ELSE "delRemove"
    /\ UNCHANGED <<config, now, stores, req, ran, user, res, product, data>>

delRemove ==
    /\ pc = "delRemove"
    /\ LET fileName == DeleteKey(variant, images[i + 1].url)
       IN \E fail \in BOOLEAN :
          /\ calls' = Append(calls, Call("storage", "remove", "photos", fileName,
                                         IF fail THEN MsgStorageDown ELSE ""))
          /\ blobs' = IF fail THEN blobs ELSE {b \in blobs : b.key # fileName}
    /\ i' = i + 1
    /\ pc' = IF i + 1 < Len(images) THEN "delRemove" ELSE "delProduct"
    /\ UNCHANGED <<config, now, users, profiles, products, product_images,
                   nextProductId, nextImageId, nextUuid, req, ran, user, res,
                   product, images, found, data>>

delProduct ==
    /\ pc = "delProduct"
    /\ \E fail \in BOOLEAN :
        /\ calls' = Append(calls, Call("db", "delete", "products",
                                       <<ToString(req.id)>>,
                                       IF fail THEN MsgDbDown ELSE ""))
        /\ products' = IF fail THEN products ELSE {p \in products : p.id # req.id}
        /\ \E cascade \in BOOLEAN :
             product_images' = IF fail \/ ~cascade THEN product_images
                               ELSE {r \in product_images : r.product_id # req.id}
    /\ Respond(200, Ok)
    /\ UNCHANGED <<config, now, users, profiles, blobs, nextProductId,
                   nextImageId, nextUuid, req, ran, user, local>>

\* ---------------------------------------------------------------- GET /me
\* from("profiles").select("role").eq("id", id).maybeSingle()
SelectMaybeSingle(id) ==
    {[error |-> MsgDbDown, data |-> Undefined]}
    \cup (IF Cardinality({p \in profiles : p.id = id}) = 1
          THEN {[error |-> "", data |-> p.role] : p \in {q \in profiles : q.id = id}}
          ELSE IF Cardinality({p \in profiles : p.id = id}) = 0
          THEN {[error |-> "", data |-> Undefined]}
          ELSE {[error |-> MsgNoRows, data |-> Undefined]})

\* profiles.id is unique: the error of from("profiles").insert(row)
ProfileInsertError(id, fail) ==
    IF fail THEN MsgDbDown
    ELSE IF \E p \in profiles : p.id = id THEN MsgDuplicate
    ELSE ""

\* whether this build's GET /me inserts the missing profile
Bootstraps(v) == v = "part001"

meLookup ==
    /\ pc = "meLookup"
    /\ \E out \in SelectMaybeSingle(user) :
        /\ calls' = Append(calls, CallRet("db", "select", "profiles",
                            <<ToString(user)>>, out.error,
                            IF out.data = Undefined THEN "null" ELSE out.data))
        /\ IF Bootstraps(variant)
           THEN IF out.data = Undefined
                THEN pc' = "meInsert" /\ res' = res
                ELSE Respond(200, [id |-> user, role |-> out.data])
           ELSE Respond(200, [id |-> user,
                              role |-> IF Falsy(out.data) THEN "cliente" ELSE out.data])
    /\ UNCHANGED <<config, now, stores, req, ran, user, local>>

meInsert ==
    /\ pc = "meInsert"
    /\ \E fail \in BOOLEAN :
        /\ calls' = Append(calls, Call("db", "insert", "profiles", <<ToString(user)>>,
                                       ProfileInsertError(user, fail)))
        /\ profiles' = IF ProfileInsertError(user, fail) = ""
                       THEN profiles \cup {[id |-> user, role |-> "cliente",
                                            cpf |-> Undefined, telefone |-> Undefined]}
                       ELSE profiles
    /\ Respond(200, [id |-> user, role |-> "cliente"])
    /\ UNCHANGED <<config, now, users, products, product_images, blobs,
                   nextProductId, nextImageId, nextUuid, req, ran, user, local>>

\* -------------------------------------------------- POST /auth/register
\* the error of auth.admin.createUser({email, password, email_confirm})
CreateUserError(email, fail) ==
    IF fail THEN MsgAuthDown
    ELSE IF \E u \in users : u.email = email THEN MsgEmailTaken
    ELSE ""

register ==
    /\ pc = "register"
    /\ IF Falsy(req.body.email) \/ Falsy(req.body.password)
          \/ Falsy(req.body.cpf) \/ Falsy(req.body.telefone)
       THEN /\ Respond(400, Err(MsgRegister))
            /\ UNCHANGED <<users, calls, data>>
       ELSE \E fail \in BOOLEAN :
            LET err == CreateUserError(req.body.email, fail)
            IN /\ calls' = Append(calls, Call("auth", "createUser", "",
                                              <<req.body.email>>, err))
               /\ IF err # ""
                  THEN /\ Respond(400, Err(err))
                       /\ UNCHANGED <<users, data>>
                  ELSE /\ users' = users \cup
                              {[id |-> Cardinality(users) + 1, email |-> req.body.email,
                                password |-> req.body.password]}
                       /\ data' = Cardinality(users) + 1
                       /\ pc' = "regProfile"
                       /\ res' = res
    /\ UNCHANGED <<config, now, profiles, products, product_images, blobs,
                   nextProductId, nextImageId, nextUuid, req, ran, user,
                   product, images, i, found>>

regProfile ==
    /\ pc = "regProfile"
    /\ \E fail \in BOOLEAN :
       LET err == ProfileInsertError(data, fail)
       IN /\ calls' = Append(calls, Call("db", "insert", "profiles",
                                         <<ToString(data)>>, err))
          /\ profiles' = IF err = ""
                         THEN profiles \cup {[id |-> data, role |-> "cliente",
                                              cpf |-> req.body.cpf,
                                              telefone |-> req.body.telefone]}
                         ELSE profiles
          /\ IF err # "" THEN Respond(400, Err(err)) ELSE Respond(201, Ok)
    /\ UNCHANGED <<config, now, users, products, product_images, blobs,
                   nextProductId, nextImageId, nextUuid, req, ran, user, local>>

\* ----------------------------------------------------- POST /auth/login
login ==
    /\ pc = "login"
    /\ \E fail \in BOOLEAN :
       LET match == {u \in users : u.email = req.body.email
                                   /\ u.password = req.body.password}
           err == IF fail THEN MsgAuthDown
                  ELSE IF match = {} THEN "Invalid login credentials"
                  ELSE ""
       IN /\ calls' = Append(calls, Call("auth", "signInWithPassword", "",
                                         <<req.body.email>>, err))
          /\ IF err # ""
             THEN Respond(401, Err(MsgLogin))
             ELSE \E u \in match :
                  Respond(200, [access_token |-> AccessToken(u.id), user |-> u.id])
    /\ UNCHANGED <<config, now, stores, req, ran, user, local>>

\* ---------------------------------------------------------- GET /products
\* p.product_images.sort((a, b) => a.order_index - b.order_index)
RECURSIVE InsertSorted(_, _)
InsertSorted(sorted, x) ==
    IF sorted = <<>> THEN <<x>>
    ELSE IF Last(sorted).order_index - x.order_index <= 0 THEN Append(sorted, x)
    ELSE Append(InsertSorted(SubSeq(sorted, 1, Len(sorted) - 1), x), Last(sorted))

RECURSIVE SortImages(_)
SortImages(list) ==
    IF list = <<>> THEN <<>>
    ELSE InsertSorted(SortImages(SubSeq(list, 1, Len(list) - 1)), Last(list))

\* whether this build's GET /products sorts the embedded images
SortsImages(v) == v = "index2"

\* the embedded product_images of product pid, rows as the store returns them
Embedded(v, pid, rows) ==
    LET own == SelectSeq(rows, LAMBDA r : r.product_id = pid)
        list == [k \in 1..Len(own) |->
                   [id |-> own[k].id, url |-> own[k].url,
                    order_index |-> IF v = "part001" THEN NoIndex ELSE own[k].order_index]]
    IN IF SortsImages(v) THEN SortImages(list) ELSE list

getProducts ==
    /\ pc = "getProducts"
    /\ \E fail \in BOOLEAN :
        /\ calls' = Append(calls, Call("db", "select", "products", <<>>,
                                       IF fail THEN MsgDbDown ELSE ""))
        /\ IF fail
           THEN Respond(500, Err(MsgDbDown))
           ELSE \E ps \in {f \in Perms(products) :
                             \A a, b \in 1..Len(f) :
                                 a < b => f[a].created_at >= f[b].created_at} :
                \E rows \in Perms(product_images) :
                   Respond(200, [data |-> [k \in 1..Len(ps) |->
                       [id |-> ps[k].id, title |-> ps[k].title,
                        description |-> ps[k].description,
                        product_images |-> Embedded(variant, ps[k].id, rows)]]])
    /\ UNCHANGED <<config, now, stores, req, ran, user, local>>

\* ------------------------------------------------------------ GET /admin/*
adminStats ==
    /\ pc = "adminStats"
    /\ \E fail \in BOOLEAN :
        /\ calls' = Append(calls, Call("db", "select", "stats", <<"1">>,
                                       IF fail THEN MsgDbDown ELSE ""))
        /\ Respond(200, [stats |-> ~fail])
    /\ UNCHANGED <<config, now, stores, req, ran, user, local>>

adminClients ==
    /\ pc = "adminClients"
    /\ \E fail \in BOOLEAN :
        /\ calls' = Append(calls, Call("db", "select", "profiles", <<>>,
                                       IF fail THEN MsgDbDown ELSE ""))
        /\ IF fail
           THEN \/ Respond(500, Err("TypeError"))
                \/ (pc' = "done" /\ res' = res)
           ELSE Respond(200, [clients |->
                    {[cpf |-> p.cpf, telefone |-> p.telefone, role |-> p.role] :
                        p \in {q \in profiles : q.role # "admin"}}])
    /\ UNCHANGED <<config, now, stores, req, ran, user, local>>

\* --------------------------------------------------------------- requests
Request(route, h, body, files, id) ==
    [route |-> route, authorization |-> h, body |-> body, files |-> files, id |-> id]

\* the admin's well-formed header; requests stopped by a middleware carry the
\* body of ValidBody, which no stage reads
AdminHeader == Header(<<"Bearer ", AccessToken(1)>>)
ValidBody == [NoBody EXCEPT !.title = "Chair", !.description = "Oak chair"]

Requests ==
    {Request("POST /auth/login", NoHeader,
             [NoBody EXCEPT !.email = e, !.password = pw], <<>>, 0) :
         e \in Emails \ {Undefined}, pw \in Passwords}
    \cup {Request("GET /products", NoHeader, NoBody, <<>>, 0)}
    \cup {Request("GET /me", h, NoBody, <<>>, 0) : h \in Headers}
    \cup {Request("DELETE /products/:id", h, NoBody, <<>>, id) :
             h \in Headers, id \in 1..MaxProducts}
    \cup (IF nextProductId > MaxProducts THEN {}
          ELSE {Request("POST /products", h, ValidBody, <<File(<<"a", ".", "png">>, 1)>>, 0) :
                    h \in Headers}
               \cup {Request("POST /products", AdminHeader,
                             [NoBody EXCEPT !.title = t, !.description = d], fs, 0) :
                         t \in Titles, d \in Descriptions, fs \in FileLists})
    \cup {Request(r, h, NoBody, <<>>, 0) :
             r \in {"GET /admin/stats", "GET /admin/clients"}, h \in Headers}
    \cup (IF Cardinality(users) >= MaxUsers THEN {}
          ELSE {Request("POST /auth/register", NoHeader,
                        [NoBody EXCEPT !.email = e, !.password = "pw",
                                       !.cpf = c, !.telefone = t], <<>>, 0) :
                    e \in Emails, c \in Contacts, t \in Contacts})

receive ==
    \E r \in {q \in Requests : q.route \in Routes(variant)} : Arrive(r)

Next ==
    \/ receive
    \/ finish
    \/ Tick
    \/ auth
    \/ adminOnly
    \/ uploadArray
    \/ createProduct
    \/ uploadFile
    \/ insertImages
    \/ delLookup
    \/ delRemove
    \/ delProduct
    \/ meLookup
    \/ meInsert
    \/ register
    \/ regProfile
    \/ login
    \/ getProducts
    \/ adminStats
    \/ adminClients

Spec == Init /\ [][Next]_vars

\* ================================================================ claims
Mutation(c) ==
    /\ c.op \in {"insert", "delete", "upload", "remove"}
    /\ c.target \in {"products", "product_images", "photos"}

Uploads == SelectSeq(calls, LAMBDA c : c.op = "upload")

IsAdmin(u) == \E p \in profiles : p.id = u /\ p.role = "admin"

\* C1: on a gated route a request without an Authorization header is answered
\* 401 {error: "Token nao enviado"}; the identity provider is not called, no
\* further stage is invoked and no store is read or written.
C1_Unanswered ==
    req.route \in Gated /\ ~req.authorization.sent
        => /\ calls = <<>>
           /\ ran = <<"auth">>
           /\ user = NoUser
           /\ pc \in {"auth", "done"}
           /\ pc = "done" => res = Json(401, Err(MsgNoToken))

C1_Step ==
    pc = "auth" /\ ~req.authorization.sent
        => /\ res' = Json(401, Err(MsgNoToken))
           /\ pc' = "done"
           /\ UNCHANGED <<stores, calls, ran, user>>

C1_MissingToken == []C1_Unanswered /\ [][C1_Step]_vars

C1_Witness ==
    /\ pc = "done"
    /\ req.route \in AdminGated
    /\ ~req.authorization.sent
    /\ res.status = 401

\* C2: a request whose token the identity provider rejects (an error, or no
\* user) is answered 401 {error: "Token invalido"}; no user is attached and no
\* further stage is invoked.
C2_InvalidToken ==
    \A k \in 1..Len(calls) :
        calls[k].op = "getUser" /\ (calls[k].err # "" \/ calls[k].ret = "null")
            => /\ req.route \in Gated
               /\ pc = "done"
               /\ res = Json(401, Err(MsgBadToken))
               /\ user = NoUser
               /\ ran = <<"auth">>
               /\ Len(calls) = 1

C2_Witness ==
    /\ pc = "done"
    /\ Len(calls) = 1
    /\ calls[1].op = "getUser"
    /\ calls[1].err = ""
    /\ calls[1].ret = "null"
    /\ res.status = 401

\* C3: on an admin-gated route, an authenticated caller whose profile lookup
\* errors, finds no row or finds a role other than "admin" is answered 403
\* {error: "Acesso negado"} and the route handler never runs; products,
\* product_images and blobs are only ever created or deleted for a caller that
\* auth resolved and adminOnly found to be "admin".
C3_Denied ==
    /\ req.route \in AdminGated /\ Len(calls) >= 2
         /\ (calls[2].err # "" \/ calls[2].ret # "admin" \/ ~IsAdmin(user))
         => /\ pc = "done"
            /\ res = Json(403, Err(MsgDenied))
            /\ ran = <<"auth", "adminOnly">>
            /\ Len(calls) = 2
    /\ \A k \in 1..Len(calls) :
         Mutation(calls[k])
            => /\ k > 2
               /\ SubSeq(ran, 1, 2) = <<"auth", "adminOnly">>
               /\ calls[1].op = "getUser" /\ calls[1].err = ""
               /\ calls[1].ret = ToString(user)
               /\ \E u \in users : u.id = user
               /\ calls[2].target = "profiles" /\ calls[2].err = ""
               /\ calls[2].ret = "admin"
               /\ IsAdmin(user)

C3_Step ==
    products' # products \/ product_images' # product_images \/ blobs' # blobs
        => /\ req.route \in AdminGated
           /\ IsAdmin(user)
           /\ Len(ran) > 2
           /\ Len(calls') > 2 /\ Mutation(calls'[Len(calls')])

C3_AdminGate == []C3_Denied /\ [][C3_Step]_vars

C3_Witness ==
    /\ pc = "done"
    /\ req.route = "POST /products"
    /\ \E p \in profiles : p.id = user /\ p.role = "cliente"
    /\ res = Json(403, Err(MsgDenied))

\* C4: a successful product creation with n files (1..10) leaves exactly n
\* product_images rows for the product, with order_index 0..n-1, the row of
\* order_index i carrying the URL of the i-th uploaded file; GET /products
\* lists a product's images in that order (ascending order_index).
C4_Created ==
    pc = "done" /\ req.route = "POST /products" /\ res = Json(201, Ok)
        => LET n == Len(req.files)
               rows == {r \in product_images : r.product_id = product}
           IN /\ n \in 1..FilesLimit
              /\ Cardinality(rows) = n
              /\ \A k \in 0..(n - 1) : \E r \in rows :
                    /\ r.order_index = k
                    /\ r.url = images[k + 1].url
                    /\ \E b \in blobs : /\ b.key = Uploads[k + 1].arg
                                        /\ b.buffer = req.files[k + 1].buffer

C4_Listed ==
    pc = "done" /\ req.route = "GET /products" /\ res.status = 200
        => \A p \in 1..Len(res.body.data) :
              \A k \in 1..Len(res.body.data[p].product_images) :
                  res.body.data[p].product_images[k].order_index = k - 1

C4_ImagesInUploadOrder == C4_Created /\ C4_Listed

\* C5: a product creation with zero files is answered 400 and creates no
\* product row; the handler validates before its first store call, title and
\* description first and the file count second, so a request failing either
\* check leaves the relational store and the object store unchanged.
C5_Invalid ==
    req.route = "POST /products" /\ pc = "done" /\ Last(ran) = "create"
      /\ (Falsy(req.body.title) \/ Falsy(req.body.description) \/ Len(req.files) = 0)
        => /\ res = Json(400, Err(IF Falsy(req.body.title) \/ Falsy(req.body.description)
                                   THEN MsgTitle ELSE MsgNoFiles))
           /\ \A k \in 1..Len(calls) : ~Mutation(calls[k])
           /\ Len(calls) = 2
           /\ product = 0

C5_Step ==
    pc = "create"
      /\ (Falsy(req.body.title) \/ Falsy(req.body.description) \/ Len(req.files) = 0)
        => /\ pc' = "done"
           /\ res'.status = 400
           /\ UNCHANGED <<stores, calls>>

C5_ValidationFirst == []C5_Invalid /\ [][C5_Step]_vars

C5_Witness ==
    /\ pc = "done"
    /\ req.route = "POST /products"
    /\ Last(ran) = "create"
    /\ ~Falsy(req.body.title) /\ ~Falsy(req.body.description)
    /\ Len(req.files) = 0
    /\ res = Json(400, Err(MsgNoFiles))

\* C6: when the upload of file k (k >= 1) fails after files 0..k-1 were
\* uploaded, the response is 500 with that upload's error message, files
\* k+1.. are never uploaded, the product row of step 1 still exists, the
\* blobs of files 0..k-1 still exist and no product_images row was inserted
\* for the product: nothing is rolled back and the batch insert never runs.
C6_UploadAbort ==
    req.route = "POST /products" /\ Len(Uploads) >= 2 /\ Last(Uploads).err # ""
        => LET k == Len(Uploads) - 1
           IN /\ pc = "done"
              /\ res = Json(500, Err(Last(Uploads).err))
              /\ Last(calls) = Last(Uploads)
              /\ i = k
              /\ \A j \in 1..k :
                    /\ Uploads[j].err = ""
                    /\ \E b \in blobs : /\ b.key = Uploads[j].arg
                                        /\ b.buffer = req.files[j].buffer
              /\ \E p \in products : p.id = product
              /\ ~\E r \in product_images : r.product_id = product
              /\ ~\E c \in 1..Len(calls) :
                    \/ calls[c].op \in {"remove", "delete"}
                    \/ calls[c].op = "insert" /\ calls[c].target = "product_images"

C6_Witness ==
    /\ pc = "done"
    /\ req.route = "POST /products"
    /\ Len(Uploads) = 2
    /\ Uploads[1].err = ""
    /\ Uploads[2].err # ""
    /\ res.status = 500

\* C7: GET /me for an authenticated user without a profile creates a profile
\* with role "cliente" for that user and returns {id, role: "cliente"};
\* repeating the call returns the same and creates no second row, so after
\* any number of GET /me calls exactly one profile row exists for that id.
C7_OneProfileAfterMe ==
    pc = "done" /\ req.route = "GET /me" /\ user # NoUser
        => /\ res.status = 200
           /\ res.body.id = user
           /\ Cardinality({p \in profiles : p.id = user}) = 1
           /\ \A p \in profiles : p.id = user => res.body.role = p.role

\* C8 as claimed: deleting a product that has N product_images rows issues
\* exactly N blob deletions, all before the product row deletion, then the
\* row deletion, and answers 200 {ok: true} whatever the deletions report.
Removes == SelectSeq(calls, LAMBDA c : c.op = "remove")

DeleteDone == pc = "done" /\ req.route = "DELETE /products/:id" /\ Last(ran) = "delLookup"

DeleteSequence(n) ==
    /\ res = Json(200, Ok)
    /\ Len(Removes) = n
    /\ Len(calls) = n + 4
    /\ calls[3].op = "select" /\ calls[3].target = "product_images"
    /\ \A k \in 4..(n + 3) : calls[k].op = "remove" /\ calls[k].target = "photos"
    /\ Last(calls).op = "delete" /\ Last(calls).target = "products"

C8_RemovesEveryRow == DeleteDone => DeleteSequence(found)

\* C8 amended: deleting a product issues exactly one blob deletion per
\* product_images row that the image lookup returned (N when the lookup
\* succeeds on a product with N rows, none when the lookup errors), all of
\* them before the product row deletion, then the row deletion, and answers
\* 200 {ok: true} whatever the lookup and the deletions report.
C8_RemovesEveryRowFound ==
    DeleteDone => DeleteSequence(IF calls[3].err = "" THEN found ELSE 0)

C8_Witness ==
    /\ DeleteDone
    /\ found = 2
    /\ calls[3].err = ""
    /\ Len(Removes) = 2
    /\ Removes[1].err # ""
    /\ Last(calls).err # ""
    /\ res = Json(200, Ok)

\* C9: after any sequence of register, login and authenticated requests, a
\* profile row exists for every user that completed registration (201) or
\* made an authenticated access; a user without a profile at its first
\* authenticated access gets one with role "cliente".
C9_ProfileForEveryUser ==
    /\ pc = "done" /\ user # NoUser
         => \E p \in profiles : p.id = user
    /\ pc = "done" /\ req.route = "POST /auth/register" /\ res.status = 201
         => \E p \in profiles : p.id = data

\* C10: within one product creation the blob keys of the files are pairwise
\* distinct, also for two files of the same original name handled in the same
\* clock tick.
C10_DistinctKeys ==
    req.route = "POST /products"
        => \A a, b \in 1..Len(Uploads) : a # b => Uploads[a].arg # Uploads[b].arg

\* The key derived on deletion from each row of a creation request is the key
\* its upload call received.
C11_SameKey ==
    req.route = "POST /products"
        => \A k \in 1..Len(images) : DeleteKey(variant, images[k].url) = Uploads[k].arg

\* A deletion that found image rows, and whose every object store call
\* succeeded, leaves no blob of the deleted product.
C11_NoBlobLeft ==
    DeleteDone /\ found >= 1 /\ calls[3].err = ""
      /\ (\A k \in 1..Len(Removes) : Removes[k].err = "")
        => ~\E b \in blobs : b.owner = req.id

\* C11: the blob key that product deletion derives from a stored
\* product_images url is the key under which product creation uploaded the
\* blob (last path segment for the flat keys, last two segments for
\* {product_id}/{uuid}.{ext}); hence after a successful creation and a
\* deletion of that product in which every object store call succeeds, none
\* of the blobs uploaded for the product remains in the object store.
C11_DeleteKeyIsUploadKey == C11_SameKey /\ C11_NoBlobLeft

====
